---- MODULE Spec2Model ----
(***************************************************************************)
(* Model of aglio's MSON rendering core: the inheritance resolver          *)
(* (src/src/inherit.js), the JSON Schema renderer (schema.js, held in      *)
(* src/unnamed/part_000 lines 1-134) and the example renderer              *)
(* (src/src/example.js).                                                   *)
(*                                                                         *)
(* The three functions are pure tree walks, so the state machine draws an  *)
(* input (a root element and a symbol table) in Init and each action       *)
(* applies one function to it and records the outcome: a returned value    *)
(* or a raised JavaScript error.                                           *)
(***************************************************************************)
EXTENDS Integers, Sequences, FiniteSets, TLC

VARIABLES root, dataStructures, baseName, inheritOut, schemaOut, exampleOut,
          schemaAgain, exampleAgain,
          slugCache, slugPc, sluggified, slugUnique, slugReturned, slugTurns,
          payloads, decorated, itemAt, decoratePc, drafterExamples,
          stepStack, stepStatus, stepRenderer

\* The renderers and inherit.
renderVars == <<root, dataStructures, baseName, inheritOut, schemaOut, exampleOut,
                schemaAgain, exampleAgain>>
\* slug and its cache.
slugVars == <<slugCache, slugPc, sluggified, slugUnique, slugReturned, slugTurns>>

\* decorate: the payloads as given, as decorate has them now, the one at
\* work, the place in the loop body, and whether DRAFTER_EXAMPLES is set.
decorateVars == <<payloads, decorated, itemAt, decoratePc, drafterExamples>>

\* A renderer taken one loop turn and one call at a time: the calls and
\* loops it is in, whether it is still running, and which renderer it is.
stepVars == <<stepStack, stepStatus, stepRenderer>>

vars == <<renderVars, slugVars, decorateVars, stepVars>>

(***************************************************************************)
(* Bounds of the model.                                                    *)
(***************************************************************************)
MaxMembers == 2   \* longest member list of a base or derived object
MaxOptions == 2   \* most options in one option-set (select)
MaxItems == 2     \* most children of an array
MaxCalls == 3     \* most calls of slug on one cache
MaxPayloads == 2  \* most requests and responses of one example

(***************************************************************************)
(* JavaScript values.  Primitives and arrays are tagged records; a plain   *)
(* object built by the renderers is an insertion-ordered list of entries,  *)
(* as `for (key in obj)` enumerates them.  Elements of the refract tree    *)
(* are TLA+ records whose optional fields (content, meta, attributes) are  *)
(* simply absent when the JSON omits them.                                 *)
(***************************************************************************)
Undefined == [t |-> "undefined"]
Str(s) == [t |-> "string", s |-> s]
Num(n) == [t |-> "number", n |-> n]
Bool(b) == [t |-> "boolean", b |-> b]
Arr(items) == [t |-> "array", items |-> items]
Obj(entries) == [t |-> "object", entries |-> entries]

Tagged(v) == "t" \in DOMAIN v
IsUndefined(v) == Tagged(v) /\ v.t = "undefined"
IsArray(v) == Tagged(v) /\ v.t = "array"
IsString(v) == Tagged(v) /\ v.t = "string"
IsObj(v) == Tagged(v) /\ v.t = "object"
IsElement(v) == "element" \in DOMAIN v

\* o.f for a record o read as a JavaScript object: undefined when absent.
Field(o, f) == IF f \in DOMAIN o THEN o[f] ELSE Undefined
\* o.f = v
Put(o, f, v) == (f :> v) @@ o

\* ToBoolean
Truthy(v) ==
  IF ~Tagged(v) THEN TRUE
  ELSE CASE v.t = "undefined" -> FALSE
         [] v.t = "string" -> v.s # ""
         [] v.t = "number" -> v.n # 0
         [] v.t = "boolean" -> v.b
         [] OTHER -> TRUE

\* The characters of the string literals that occur as element content.
StrChars(s) ==
  CASE s = "" -> <<>>
    [] s = "x" -> <<"x">>
    [] s = "1" -> <<"1">>
    [] s = "hi" -> <<"h", "i">>

\* Array.from(v): the items of an array, the characters of a string, and
\* nothing for a number, a boolean, undefined or a non-iterable object.
ArrayFrom(v) ==
  IF IsArray(v) THEN v.items
  ELSE IF IsString(v) THEN [i \in 1..Len(StrChars(v.s)) |-> Str(StrChars(v.s)[i])]
  ELSE <<>>

\* Outcome of a call: a returned value or a raised error.
Ok(v) == [ok |-> TRUE, v |-> v]
Throw(e) == [ok |-> FALSE, err |-> e]
NotCalled == [ok |-> FALSE, err |-> "not called"]
Called(out) == out # NotCalled

\* v.element, undefined for a value that is no element (a character pushed
\* into a member list has no such property).
ElementOf(v) == IF IsElement(v) THEN v.element ELSE "undefined"

\* A splice that removes nothing.
RemoveNone(s, i) == s

RemoveAt(s, i) == [j \in 1..(Len(s) - 1) |-> IF j < i THEN s[j] ELSE s[j + 1]]

(***************************************************************************)
(* inherit.js                                                              *)
(***************************************************************************)
\* The while loop of uniqueMembers at index i (0-based, as in the source)
\* with the keys seen so far.  `continue` after the splice skips `i--`, so
\* the loop looks again at index i, which now holds the member that followed
\* the removed one.  Reading content[i] past the end is a TypeError.
RECURSIVE uniqueMembersLoop(_, _, _)
uniqueMembersLoop(content, i, known) ==
  IF i < 0 THEN Ok(content)
  ELSE IF i >= Len(content) THEN Throw("TypeError")
  ELSE LET item == content[i + 1] IN
    IF ElementOf(item) = "member"
    THEN LET key == item.content.key.content IN
      IF key \in known
      THEN uniqueMembersLoop(RemoveAt(content, i + 1), i, known)
      ELSE uniqueMembersLoop(content, i - 1, known \cup {key})
    ELSE uniqueMembersLoop(content, i - 1, known)

\* uniqueMembers(content): the list is edited in place; the outcome carries
\* the list as the call leaves it.
uniqueMembers(content) == uniqueMembersLoop(content, Len(content) - 1, {})

\* JSON.parse(JSON.stringify(base)): elements are JSON data without
\* undefined-valued fields, and TLA+ values are never aliased.
DeepCopy(base) == base

\* Lines 41-58: metadata and attributes of element overwrite, key by key.
mergeKeys(combined, element, f) ==
  IF f \in DOMAIN element
  THEN Put(combined, f, element[f] @@ (IF f \in DOMAIN combined THEN combined[f] ELSE <<>>))
  ELSE combined

\* A push that puts the new items first.
pushAllFront(content, items) == items \o content
\* Lines 72-74: every item of element.content is pushed onto the list.
pushAll(content, items) == content \o items

\* Lines 63-84: the content.  A scalar combined.content has no length that
\* is followed by a first element of kind member, so only a list reaches
\* uniqueMembers.
mergeContent(combined, element) ==
  IF ~Truthy(Field(element, "content")) THEN Ok(combined)
  ELSE IF IsArray(Field(combined, "content")) \/ IsArray(element.content)
  THEN LET c0 == IF "content" \in DOMAIN combined THEN combined.content ELSE Arr(<<>>)
           items == ArrayFrom(element.content)
       IN IF items # <<>> /\ ~IsArray(c0) THEN Throw("TypeError")
          ELSE LET c1 == IF IsArray(c0) THEN Arr(pushAll(c0.items, items)) ELSE c0 IN
            IF IsArray(c1) /\ Len(c1.items) > 0 /\ ElementOf(c1.items[1]) = "member"
            THEN LET u == uniqueMembers(c1.items) IN
                 IF u.ok THEN Ok(Put(combined, "content", Arr(u.v))) ELSE u
            ELSE Ok(Put(combined, "content", c1))
  ELSE Throw("ReferenceError")

inherit(base, element) ==
  mergeContent(mergeKeys(mergeKeys(DeepCopy(base), element, "meta"), element, "attributes"),
               element)

(***************************************************************************)
(* Plain objects built by the renderers.                                   *)
(***************************************************************************)
ObjHas(o, k) == \E i \in 1..Len(o.entries) : o.entries[i].key = k
ObjGet(o, k) ==
  IF ObjHas(o, k)
  THEN o.entries[CHOOSE i \in 1..Len(o.entries) : o.entries[i].key = k].value
  ELSE Undefined
\* o[k] = v: an existing key keeps its place, a new key goes last.
ObjSet(o, k, v) ==
  IF ObjHas(o, k)
  THEN Obj([i \in 1..Len(o.entries) |->
              IF o.entries[i].key = k THEN [key |-> k, value |-> v] ELSE o.entries[i]])
  ELSE Obj(Append(o.entries, [key |-> k, value |-> v]))
ObjKeys(o) == [i \in 1..Len(o.entries) |-> o.entries[i].key]
EmptyObj == Obj(<<>>)

\* obj[v] for a string v: the property named by its text.
PropertyKey(v) == v.s

SeqHas(s, x) == \E i \in 1..Len(s) : s[i] = x

\* attributes.typeAttributes when it is there (an array is truthy).
TypeAttributes(el) ==
  IF "attributes" \in DOMAIN el /\ "typeAttributes" \in DOMAIN el.attributes
  THEN el.attributes.typeAttributes
  ELSE <<>>
\* meta.description, undefined when absent.
Description(el) ==
  IF "meta" \in DOMAIN el THEN Field(el.meta, "description") ELSE Undefined

\* The content of a member element: a {key, value} pair of elements.
IsPair(c) == "key" \in DOMAIN c /\ "value" \in DOMAIN c

(***************************************************************************)
(* assert.deepEqual of Node.js (legacy mode), as schema.js imports it:     *)
(* primitives are compared with ==, arrays and objects by their own keys.  *)
(***************************************************************************)
NaN == [nan |-> TRUE]
Number(n) == [nan |-> FALSE, n |-> n]
\* ToNumber of the strings that occur in the model.
StrToNumber(s) ==
  CASE s = "" -> Number(0)
    [] s = "0" -> Number(0)
    [] s = "1" -> Number(1)
    [] s = "2" -> Number(2)
    [] OTHER -> NaN
ToNumber(v) ==
  CASE v.t = "number" -> Number(v.n)
    [] v.t = "boolean" -> Number(IF v.b THEN 1 ELSE 0)
    [] v.t = "string" -> StrToNumber(v.s)
    [] OTHER -> NaN
\* a == b for two primitives (undefined only equals undefined or null).
LooseEq(a, b) ==
  IF a.t = b.t THEN a = b
  ELSE IF a.t = "undefined" \/ b.t = "undefined" THEN FALSE
  ELSE ToNumber(a) = ToNumber(b) /\ ToNumber(a) # NaN

RECURSIVE deepEqual(_, _)
deepEqual(a, b) ==
  IF a = b THEN TRUE
  ELSE IF IsArray(a) /\ IsArray(b)
  THEN Len(a.items) = Len(b.items)
       /\ \A i \in 1..Len(a.items) : deepEqual(a.items[i], b.items[i])
  ELSE IF IsObj(a) /\ IsObj(b)
  THEN Len(a.entries) = Len(b.entries)
       /\ \A i \in 1..Len(a.entries) :
            /\ ObjHas(b, a.entries[i].key)
            /\ deepEqual(a.entries[i].value, ObjGet(b, a.entries[i].key))
  ELSE IF IsArray(a) \/ IsArray(b) \/ IsObj(a) \/ IsObj(b) THEN FALSE
  ELSE LooseEq(a, b)

(***************************************************************************)
(* schema.js                                                               *)
(***************************************************************************)
\* Line 48: items.reduce((l, r) => deepEqual(l, r) || r) returns the last
\* item when every item equals its successor; deepEqual throws otherwise
\* and line 50 wraps all the items.
reduceItems(items) ==
  IF \A i \in 1..(Len(items) - 1) : deepEqual(items[i], items[i + 1])
  THEN items[Len(items)]
  ELSE Obj(<<[key |-> "anyOf", value |-> Arr(items)]>>)

\* The end of renderSchema with the description copied unguarded.
finishSchemaUnguarded(schema, rt) ==
  LET s1 == ObjSet(schema, "description", Description(rt))
  IN IF SeqHas(TypeAttributes(rt), "nullable")
     THEN ObjSet(s1, "type", Arr(<<ObjGet(s1, "type"), Str("null")>>))
     ELSE s1

\* Lines 123-132, after the switch: description and nullable of root.
finishSchema(schema, rt) ==
  LET s1 == IF ~IsUndefined(Description(rt))
            THEN ObjSet(schema, "description", Description(rt)) ELSE schema
  IN IF SeqHas(TypeAttributes(rt), "nullable")
     THEN ObjSet(s1, "type", Arr(<<ObjGet(s1, "type"), Str("null")>>))
     ELSE s1

\* Lines 91-110: description and type attributes of a member applied to the
\* schema of its value; st is [schema, required].
applyMember(st, key, member, valueSchema) ==
  LET p1 == IF ~IsUndefined(Description(member))
            THEN ObjSet(valueSchema, "description", Description(member))
            ELSE valueSchema
      ta == TypeAttributes(member)
      p2 == IF SeqHas(ta, "nullable")
            THEN ObjSet(p1, "type", Arr(<<ObjGet(p1, "type"), Str("null")>>))
            ELSE p1
      req == IF SeqHas(ta, "required") /\ ~SeqHas(st.required, key)
             THEN Append(st.required, key) ELSE st.required
  IN [schema |-> ObjSet(st.schema, "properties",
                        ObjSet(ObjGet(st.schema, "properties"), key, p2)),
      required |-> req]

\* The names of an option recorded as exclusive only, its properties dropped.
optionKeysExclusiveOnly(props, j, acc) ==
  [exclusive |-> acc.exclusive \o
                 (IF IsUndefined(props) THEN <<>>
                  ELSE [n \in 1..Len(props.entries) |-> props.entries[n].key]),
   properties |-> acc.properties]

\* Lines 74-78: every property of an option's schema goes into exclusive
\* and into the properties of the object; acc is [exclusive, properties].
RECURSIVE optionKeys(_, _, _)
optionKeys(props, j, acc) ==
  IF IsUndefined(props) \/ j > Len(props.entries) THEN acc
  ELSE optionKeys(props, j + 1,
         [exclusive |-> Append(acc.exclusive, props.entries[j].key),
          properties |-> ObjSet(acc.properties, props.entries[j].key,
                                props.entries[j].value)])

\* The content of the referenced type appended to the list instead of put
\* where the ref stood.
spliceRefAtEnd(properties, i, ref) ==
  LET c == Field(ref, "content")
      ins == IF IsArray(c) THEN c.items ELSE <<c>>
  IN SubSeq(properties, 1, i - 1) \o SubSeq(properties, i + 1, Len(properties)) \o ins

\* Lines 65-69 (example.js 50-54): the member list with the ref at index i
\* (1-based here) replaced by the content of the referenced type; concat
\* spreads an array and inserts any other value, undefined included, as one
\* item.
spliceRef(properties, i, ref) ==
  LET c == Field(ref, "content")
      ins == IF IsArray(c) THEN c.items ELSE <<c>>
  IN SubSeq(properties, 1, i - 1) \o ins \o SubSeq(properties, i + 1, Len(properties))

RECURSIVE renderSchema(_, _), schemaItems(_, _, _, _), schemaSelect(_, _, _, _),
          schemaMembers(_, _, _, _)

\* Lines 41-43: the schemas of the children of an array, in order.
schemaItems(content, j, items, ds) ==
  IF j > Len(content) THEN Ok(items)
  ELSE LET r == renderSchema(content[j], ds) IN
       IF r.ok THEN schemaItems(content, j + 1, Append(items, r.v), ds) ELSE r

\* Lines 72-79: the options of a select.
schemaSelect(options, j, acc, ds) ==
  IF j > Len(options) THEN Ok(acc)
  ELSE LET r == renderSchema(options[j], ds) IN
       IF r.ok
       THEN schemaSelect(options, j + 1, optionKeys(ObjGet(r.v, "properties"), 1, acc), ds)
       ELSE r

\* Lines 61-111: the while loop over properties at index i (1-based here).
schemaMembers(properties, i, st, ds) ==
  IF i > Len(properties) THEN Ok(st)
  ELSE LET member == properties[i] IN
    IF IsUndefined(member) THEN Throw("TypeError")
    ELSE IF ElementOf(member) = "ref"
    THEN IF member.content.href \in DOMAIN ds
         THEN schemaMembers(spliceRef(properties, i, ds[member.content.href]), i, st, ds)
         ELSE Throw("TypeError")
    ELSE IF ElementOf(member) = "select"
    THEN \* Array.from(undefined) is a TypeError.
         IF IsUndefined(Field(member, "content")) THEN Throw("TypeError")
         ELSE LET r == schemaSelect(ArrayFrom(member.content), 1,
                         [exclusive |-> <<>>,
                          properties |-> ObjGet(st.schema, "properties")], ds)
              IN IF ~r.ok THEN r
                 ELSE LET s1 == ObjSet(st.schema, "properties", r.v.properties)
                          old == IF ObjHas(s1, "allOf") THEN ObjGet(s1, "allOf").items ELSE <<>>
                          clause == Obj(<<[key |-> "not", value |->
                                      Obj(<<[key |-> "required", value |->
                                        Arr([k \in 1..Len(r.v.exclusive) |->
                                               Str(r.v.exclusive[k])])]>>)]>>)
                      IN schemaMembers(properties, i + 1,
                           [schema |-> ObjSet(s1, "allOf", Arr(Append(old, clause))),
                            required |-> st.required], ds)
    ELSE IF ~(IsElement(member) /\ "content" \in DOMAIN member /\ IsPair(member.content))
    THEN Throw("TypeError")
    ELSE LET key == PropertyKey(member.content.key.content)
             r == renderSchema(member.content.value, ds)
         IN IF r.ok
            THEN schemaMembers(properties, i + 1, applyMember(st, key, member, r.v), ds)
            ELSE r

renderSchema(rt, ds) ==
  IF IsUndefined(rt) THEN Throw("TypeError")
  ELSE LET kind == ElementOf(rt) IN
    IF kind \in {"boolean", "string", "number"}
    THEN LET s0 == Obj(<<[key |-> "type", value |-> Str(kind)]>>)
             s1 == IF "attributes" \in DOMAIN rt /\ "default" \in DOMAIN rt.attributes
                   THEN ObjSet(s0, "default", rt.attributes.default) ELSE s0
         IN Ok(finishSchema(s1, rt))
    ELSE IF kind = "enum"
    THEN LET c == IF Truthy(Field(rt, "content")) THEN ArrayFrom(rt.content) ELSE <<>>
         IN Ok(finishSchema(
              Obj(<<[key |-> "enum", value |->
                     Arr([j \in 1..Len(c) |-> Field(c[j], "content")])]>>), rt))
    ELSE IF kind = "array"
    THEN LET c == IF Truthy(Field(rt, "content")) THEN ArrayFrom(rt.content) ELSE <<>>
             r == schemaItems(c, 1, <<>>, ds)
             s0 == Obj(<<[key |-> "type", value |-> Str("array")]>>)
         IN IF ~r.ok THEN r
            ELSE IF Len(r.v) = 0 THEN Ok(finishSchema(s0, rt))
            ELSE IF Len(r.v) = 1 THEN Ok(finishSchema(ObjSet(s0, "items", r.v[1]), rt))
            ELSE Ok(finishSchema(ObjSet(s0, "items", reduceItems(r.v)), rt))
    ELSE IF kind \in {"object", "option"}
    THEN \* root.content.slice(0) exists for an array only (a non-empty
         \* string has slice, but its characters then fail at line 86).
         IF ~IsArray(Field(rt, "content")) THEN Throw("TypeError")
         ELSE LET r == schemaMembers(rt.content.items, 1,
                         [schema |-> Obj(<<[key |-> "type", value |-> Str("object")],
                                           [key |-> "properties", value |-> EmptyObj]>>),
                          required |-> <<>>], ds)
              IN IF ~r.ok THEN r
                 ELSE Ok(finishSchema(
                        IF Len(r.v.required) > 0
                        THEN ObjSet(r.v.schema, "required",
                               Arr([k \in 1..Len(r.v.required) |-> Str(r.v.required[k])]))
                        ELSE r.v.schema, rt))
    ELSE IF kind \in DOMAIN ds
    THEN LET c == inherit(ds[kind], rt) IN
         IF ~c.ok THEN c
         ELSE LET r == renderSchema(c.v, ds) IN
              IF r.ok THEN Ok(finishSchema(r.v, rt)) ELSE r
    ELSE Ok(finishSchema(EmptyObj, rt))

(***************************************************************************)
(* example.js                                                              *)
(***************************************************************************)
defaultValue(type) ==
  CASE type = "boolean" -> Bool(TRUE)
    [] type = "number" -> Num(1)
    [] type = "string" -> Str("Hello, world!")

\* A choice that takes the first member of the last option.
lastChoice(member) ==
  LET options == Field(member, "content") IN
  IF ~IsArray(options) \/ Len(options.items) = 0 THEN Throw("TypeError")
  ELSE LET c == Field(options.items[Len(options.items)], "content") IN
       IF ~IsArray(c) THEN Throw("TypeError")
       ELSE IF Len(c.items) = 0 THEN Ok(Undefined)
       ELSE Ok(c.items[1])

\* Line 57: member.content[0].content[0], the first member of the first
\* option; undefined when that option is empty, a TypeError when the select
\* has no option or the option no content.
firstChoice(member) ==
  LET options == Field(member, "content") IN
  IF ~IsArray(options) \/ Len(options.items) = 0 THEN Throw("TypeError")
  ELSE LET c == Field(options.items[1], "content") IN
       IF ~IsArray(c) THEN Throw("TypeError")
       ELSE IF Len(c.items) = 0 THEN Ok(Undefined)
       ELSE Ok(c.items[1])

RECURSIVE renderExample(_, _), exampleItems(_, _, _, _), exampleMembers(_, _, _, _)

\* Lines 40-42: the examples of the children of an array, in order.
exampleItems(content, j, items, ds) ==
  IF j > Len(content) THEN Ok(items)
  ELSE LET r == renderExample(content[j], ds) IN
       IF r.ok THEN exampleItems(content, j + 1, Append(items, r.v), ds) ELSE r

\* Lines 47-61: the while loop over properties at index i (1-based here).
exampleMembers(properties, i, obj, ds) ==
  IF i > Len(properties) THEN Ok(obj)
  ELSE LET member == properties[i] IN
    IF IsUndefined(member) THEN Throw("TypeError")
    ELSE IF ElementOf(member) = "ref"
    THEN IF member.content.href \in DOMAIN ds
         THEN exampleMembers(spliceRef(properties, i, ds[member.content.href]), i, obj, ds)
         ELSE Throw("TypeError")
    ELSE LET m == IF ElementOf(member) = "select" THEN firstChoice(member) ELSE Ok(member)
         IN IF ~m.ok THEN m
            ELSE IF ~(IsElement(m.v) /\ "content" \in DOMAIN m.v /\ IsPair(m.v.content))
            THEN Throw("TypeError")
            ELSE LET r == renderExample(m.v.content.value, ds) IN
                 IF r.ok
                 THEN exampleMembers(properties, i + 1,
                        ObjSet(obj, PropertyKey(m.v.content.key.content), r.v), ds)
                 ELSE r

renderExample(rt, ds) ==
  IF IsUndefined(rt) THEN Throw("TypeError")
  ELSE LET kind == ElementOf(rt) IN
    IF kind \in {"boolean", "string", "number"}
    THEN Ok(IF "content" \in DOMAIN rt THEN rt.content ELSE defaultValue(kind))
    ELSE IF kind = "enum"
    THEN \* root.content[0]: a missing content is a TypeError, an empty
         \* list or a non-indexable scalar passes undefined on.
         IF "content" \notin DOMAIN rt THEN Throw("TypeError")
         ELSE renderExample(IF Len(ArrayFrom(rt.content)) > 0
                            THEN ArrayFrom(rt.content)[1] ELSE Undefined, ds)
    ELSE IF kind = "array"
    THEN LET r == exampleItems(IF Truthy(Field(rt, "content"))
                               THEN ArrayFrom(rt.content) ELSE <<>>, 1, <<>>, ds)
         IN IF r.ok THEN Ok(Arr(r.v)) ELSE r
    ELSE IF kind = "object"
    THEN IF ~IsArray(Field(rt, "content")) THEN Throw("TypeError")
         ELSE exampleMembers(rt.content.items, 1, EmptyObj, ds)
    ELSE IF kind \in DOMAIN ds
    THEN LET c == inherit(ds[kind], rt) IN
         IF c.ok THEN renderExample(c.v, ds) ELSE c
    ELSE Ok(Undefined)

(***************************************************************************)
(* What the calls write.  JavaScript objects and arrays are shared by      *)
(* reference: a write through one name is seen through every other name of *)
(* the same object.  The objects a call writes to are kept in cells, one   *)
(* for each named type of the table, one for the root, and one for each    *)
(* object or array the call allocates.  The calls made on the children of  *)
(* an element run the same statements on the children.                     *)
(***************************************************************************)
\* No copy: combined is base itself.
sameCell(cell) == cell
\* inherit.js 38: JSON.parse(JSON.stringify(base)) is a new object.
copyCell(cell) == "combined"
\* No slice: properties is root.content itself.
contentCell(cell) == cell
\* part_000 59, example.js 46: root.content.slice(0) is a new array.
sliceCell(cell) == "properties"

\* The list uniqueMembers leaves behind, whether it returns or throws.
RECURSIVE splicedAtExit(_, _, _)
splicedAtExit(content, i, known) ==
  IF i < 0 \/ i >= Len(content) THEN content
  ELSE LET item == content[i + 1] IN
    IF ElementOf(item) = "member"
    THEN LET key == item.content.key.content IN
      IF key \in known
      THEN splicedAtExit(RemoveAt(content, i + 1), i, known)
      ELSE splicedAtExit(content, i - 1, known \cup {key})
    ELSE splicedAtExit(content, i - 1, known)

\* The object combined as inherit leaves it: the value returned, or, when
\* inherit throws, meta and attributes merged and the content as the push
\* (lines 64-74) and the splices (line 23) before the throw left it.
combinedAtExit(base, element) ==
  LET m == mergeKeys(mergeKeys(DeepCopy(base), element, "meta"), element, "attributes")
      r == mergeContent(m, element)
  IN IF r.ok THEN r.v
     ELSE IF r.err = "TypeError" /\ ("content" \notin DOMAIN m \/ IsArray(m.content))
     THEN LET c0 == IF "content" \in DOMAIN m THEN m.content.items ELSE <<>>
              c1 == pushAll(c0, ArrayFrom(element.content))
          IN Put(m, "content", Arr(splicedAtExit(c1, Len(c1) - 1, {})))
     ELSE m

\* inherit(base, element) on cells, base being the value of cell b: every
\* assignment of lines 41-84 goes to combined or to an object combined holds.
inheritCells(h, b, element) ==
  LET c == copyCell(b)
      h1 == (c :> h[b]) @@ h
  IN [h1 EXCEPT ![c] = combinedAtExit(h[b], element)]

\* Whether the loop body of a renderer throws at a member or a select: the
\* statements after the loop throw nothing, so the renderer throws on the
\* object of that one item exactly when the loop body does.
itemThrows(member, ds, renderer) ==
  LET alone == [element |-> "object", content |-> Arr(<<member>>)] IN
  IF renderer = "schema" THEN ~renderSchema(alone, ds).ok
  ELSE ~renderExample(alone, ds).ok

\* The array properties as the while loop of a renderer leaves it, at its
\* end or at the item where it throws (part_000 61-70, example.js 47-54).
RECURSIVE propertiesAtExit(_, _, _, _)
propertiesAtExit(properties, i, ds, renderer) ==
  IF i > Len(properties) THEN properties
  ELSE LET member == properties[i] IN
    IF ElementOf(member) = "ref"
    THEN IF member.content.href \in DOMAIN ds
         THEN propertiesAtExit(spliceRef(properties, i, ds[member.content.href]),
                               i, ds, renderer)
         ELSE properties
    ELSE IF itemThrows(member, ds, renderer) THEN properties
    ELSE propertiesAtExit(properties, i + 1, ds, renderer)

\* The root after a renderer ran on it: the splices of the object branch go
\* to the array properties.
rootAfter(rt, ds, renderer) ==
  IF /\ ElementOf(rt) \in (IF renderer = "schema" THEN {"object", "option"} ELSE {"object"})
     /\ IsArray(Field(rt, "content"))
  THEN LET h0 == ("root.content" :> rt.content.items)
           p == sliceCell("root.content")
           h1 == (p :> h0["root.content"]) @@ h0
           h2 == [h1 EXCEPT ![p] = propertiesAtExit(h1[p], 1, ds, renderer)]
       IN Put(rt, "content", Arr(h2["root.content"]))
  ELSE rt

\* The table after a renderer ran on rt: the default branch (part_000
\* 116-120, example.js 63-68) hands the type to inherit and renders what
\* inherit returns.
RECURSIVE tableAfter(_, _)
tableAfter(rt, ds) ==
  IF /\ ElementOf(rt) \notin {"boolean", "string", "number", "enum", "array",
                               "object", "option"}
     /\ ElementOf(rt) \in DOMAIN ds
  THEN LET h == inheritCells(ds, rt.element, rt)
           ds1 == [n \in DOMAIN ds |-> h[n]]
           c == inherit(ds[rt.element], rt)
       IN IF c.ok THEN tableAfter(c.v, ds1) ELSE ds1
  ELSE ds

(***************************************************************************)
(* Inputs: refract elements and symbol tables.                             *)
(***************************************************************************)
Prim(kind) == [element |-> kind]
Lit(kind, c) == [element |-> kind, content |-> c]
WithTypeAttributes(el, ta) ==
  IF ta = <<>> THEN el ELSE Put(el, "attributes", [typeAttributes |-> ta])
Member(k, value, ta) ==
  WithTypeAttributes([element |-> "member",
                      content |-> [key |-> Lit("string", Str(k)), value |-> value]], ta)
Ref(name) == [element |-> "ref", content |-> [href |-> name]]
Option(list) == [element |-> "option", content |-> Arr(list)]
Select(options) == [element |-> "select", content |-> Arr(options)]
Object(list) == [element |-> "object", content |-> Arr(list)]
Array(list) == [element |-> "array", content |-> Arr(list)]
Enum(list) == [element |-> "enum", content |-> Arr(list)]
Named(name, list) == [element |-> name, content |-> Arr(list)]

SeqsUpTo(S, n) == UNION {[1..k -> S] : k \in 0..n}

MemberSet ==
  { Member("id", Prim("number"), <<>>),
    Member("id", Prim("string"), <<"required">>),
    Member("a", Prim("string"), <<"nullable">>),
    Member("b", Prim("number"), <<>>) }
MemberLists == SeqsUpTo(MemberSet, MaxMembers)
ShortLists == {<<>>} \cup {<<m>> : m \in MemberSet}

OptionSet ==
  { Option(<<>>),
    Option(<<Member("a", Prim("string"), <<>>)>>),
    Option(<<Member("b", Prim("number"), <<>>)>>),
    Option(<<Member("a", Prim("number"), <<>>)>>),
    Option(<<Member("a", Prim("string"), <<>>), Member("b", Prim("string"), <<>>)>>) }
Selects == {Select(o) : o \in SeqsUpTo(OptionSet, MaxOptions) \ {<<>>}}
OneOptionSelects == {Select(<<o>>) : o \in OptionSet}

ArrayChildren ==
  { Prim("string"), Prim("number"),
    Put(Prim("number"), "attributes", [default |-> Num(1)]),
    Put(Prim("number"), "attributes", [default |-> Str("1")]),
    Enum(<<Lit("number", Num(1))>>),
    Enum(<<Lit("string", Str("1"))>>) }

Scalars == {Str("x"), Str("hi"), Num(1), Bool(TRUE), Bool(FALSE)}

\* The named types: Base varies, Mixin is a one-member object and Name a
\* primitive with a sample value.  No type is called Missing.
Table(B) ==
  ("Base" :> B) @@ ("Mixin" :> Object(<<Member("b", Prim("string"), <<>>)>>))
                @@ ("Name" :> Lit("string", Str("x")))
FixedBase == Object(<<Member("id", Prim("number"), <<>>)>>)
TypeNames == {"Base", "Mixin", "Name", "Missing"}

Input(r, ds) == [root |-> r, dataStructures |-> ds]

\* A type with members referenced with members of its own.
InheritInputs ==
  { Input(Named("Base", d), Table(b)) :
      d \in MemberLists, b \in {Object(l) : l \in MemberLists} \cup {Prim("object")} }
\* Scalar content on either side of an inheritance.
ScalarInputs ==
  { Input(d, Table(b)) :
      d \in {Prim("Base")} \cup {Lit("Base", c) : c \in Scalars}
            \cup {Named("Base", l) : l \in ShortLists},
      b \in {Prim("string"), Lit("string", Str("x")), Lit("number", Num(1))}
            \cup {Object(l) : l \in ShortLists} }
\* An object with a mixin or an option-set among its members.
ObjectInputs ==
  { Input(Object(pre \o <<x>> \o post), Table(FixedBase)) :
      pre \in ShortLists, post \in ShortLists,
      x \in {Ref(n) : n \in TypeNames} \cup Selects }
  \cup { Input(Object(<<s1, s2>>), Table(FixedBase)) :
           s1 \in Selects, s2 \in OneOptionSelects }
ArrayInputs ==
  { Input(Array(l), Table(FixedBase)) : l \in SeqsUpTo(ArrayChildren, MaxItems) }
\* A bare reference to a named type, with or without description and
\* nullable flag, at the root or as the value of a member.
NamedInputs ==
  LET refs == { [element |-> n] @@ m @@ a :
                  n \in TypeNames,
                  m \in {<<>>, [meta |-> [description |-> Str("text")]]},
                  a \in {<<>>, [attributes |-> [typeAttributes |-> <<"nullable">>]]} }
  IN { Input(r, Table(FixedBase)) : r \in refs }
     \cup { Input(Object(<<Member("a", r, <<>>)>>), Table(FixedBase)) : r \in refs }

\* A built-in element carrying the nullable flag itself.
NullableInputs ==
  { Input(WithTypeAttributes(r, <<"nullable">>), Table(FixedBase)) :
      r \in {Prim("string"), Prim("number"), Prim("boolean"),
              Array(<<Prim("string")>>),
              Object(<<Member("b", Prim("number"), <<>>)>>)} }
\* An object whose member list may name one key twice.
PlainObjectInputs ==
  { Input(Object(l), Table(FixedBase)) : l \in MemberLists }
\* Nested is a type whose member list holds a mixin between two members.
NestedTable ==
  ("Nested" :> Object(<<Member("a", Prim("number"), <<>>), Ref("Mixin"),
                        Member("id", Prim("string"), <<"required">>)>>))
  @@ Table(FixedBase)
MixinNames == {"Base", "Mixin", "Nested"}
\* An object with two mixins, or with a mixin that holds a mixin.
MixinInputs ==
  { Input(Object(<<Ref(n1)>> \o mid \o <<Ref(n2)>>), NestedTable) :
      n1 \in MixinNames, n2 \in MixinNames, mid \in ShortLists }
  \cup { Input(Object(pre \o <<Ref("Nested")>> \o post), NestedTable) :
           pre \in ShortLists, post \in ShortLists }
\* An enumeration of sample values or of object types.
EnumInputs ==
  { Input(Enum(l), Table(FixedBase)) :
      l \in { <<Lit("string", Str("x"))>>,
               <<Lit("number", Num(1)), Lit("number", Num(1))>>,
               <<Object(<<Member("a", Prim("string"), <<>>)>>)>>,
               <<Object(<<Member("a", Prim("string"), <<>>)>>), Lit("string", Str("x"))>> } }

Inputs ==
  InheritInputs \cup ScalarInputs \cup ObjectInputs \cup ArrayInputs \cup NamedInputs
  \cup NullableInputs \cup PlainObjectInputs \cup MixinInputs \cup EnumInputs

(***************************************************************************)
(* The renderers one step at a time.  A frame is a call of a renderer      *)
(* about to switch on root.element, or a loop at its index: the while loop *)
(* over properties, the while loop of uniqueMembers inside inherit, the     *)
(* loop over the children of an array or the options of a select.  The top *)
(* frame is the last of the stack; an error leaves every frame, since the  *)
(* renderers catch none.                                                   *)
(***************************************************************************)
RenderFrame(el) == [op |-> "render", el |-> el]
MembersFrame(properties, i) == [op |-> "members", properties |-> properties, i |-> i]
UniqueFrame(combined, content, i, known) ==
  [op |-> "unique", combined |-> combined, content |-> content, i |-> i, known |-> known]
ItemsFrame(content, j) == [op |-> "items", content |-> content, j |-> j]

Top(stack) == stack[Len(stack)]
Pop(stack) == SubSeq(stack, 1, Len(stack) - 1)
Running(stack) == [stack |-> stack, status |-> "running"]
Raised == [stack |-> <<>>, status |-> "raised"]
\* The top call or loop is over: the caller goes on, or the renderer returns.
Returned(stack) ==
  [stack |-> stack, status |-> IF stack = <<>> THEN "returned" ELSE "running"]

\* inherit.js 38-84 up to the call of uniqueMembers, and the renderer
\* called on what inherit returns (part_000 119, example.js 66).
inheritStep(rest, base, element) ==
  LET m == mergeKeys(mergeKeys(DeepCopy(base), element, "meta"), element, "attributes")
  IN IF ~Truthy(Field(element, "content")) THEN Running(Append(rest, RenderFrame(m)))
     ELSE IF IsArray(Field(m, "content")) \/ IsArray(element.content)
     THEN LET c0 == IF "content" \in DOMAIN m THEN m.content ELSE Arr(<<>>)
              pushed == ArrayFrom(element.content)
          IN IF pushed # <<>> /\ ~IsArray(c0) THEN Raised
             ELSE LET c1 == IF IsArray(c0) THEN Arr(pushAll(c0.items, pushed)) ELSE c0 IN
               IF IsArray(c1) /\ Len(c1.items) > 0 /\ ElementOf(c1.items[1]) = "member"
               THEN Running(Append(rest,
                      UniqueFrame(m, c1.items, Len(c1.items) - 1, {})))
               ELSE Running(Append(rest, RenderFrame(Put(m, "content", c1))))
     ELSE Raised

\* The switch on root.element (part_000 21-120, example.js 28-68).
renderStep(rest, el, ds, renderer) ==
  IF IsUndefined(el) THEN Raised
  ELSE LET kind == ElementOf(el) IN
    IF kind \in {"boolean", "string", "number"} THEN Returned(rest)
    ELSE IF kind = "enum"
    THEN IF renderer = "schema" THEN Returned(rest)
         ELSE IF "content" \notin DOMAIN el THEN Raised
         ELSE Running(Append(rest,
                RenderFrame(IF Len(ArrayFrom(el.content)) > 0
                            THEN ArrayFrom(el.content)[1] ELSE Undefined)))
    ELSE IF kind = "array"
    THEN Running(Append(rest,
           ItemsFrame(IF Truthy(Field(el, "content")) THEN ArrayFrom(el.content) ELSE <<>>, 1)))
    ELSE IF kind = "object" \/ (kind = "option" /\ renderer = "schema")
    THEN IF ~IsArray(Field(el, "content")) THEN Raised
         ELSE Running(Append(rest, MembersFrame(el.content.items, 1)))
    ELSE IF kind \in DOMAIN ds THEN inheritStep(rest, ds[kind], el)
    ELSE Returned(rest)

\* One turn of the while loop of uniqueMembers (inherit.js 19-29), i being
\* 0-based as in the source; at its end inherit returns combined.
uniqueStep(rest, f) ==
  IF f.i < 0
  THEN Running(Append(rest, RenderFrame(Put(f.combined, "content", Arr(f.content)))))
  ELSE IF f.i >= Len(f.content) THEN Raised
  ELSE LET item == f.content[f.i + 1] IN
    IF ElementOf(item) = "member"
    THEN LET key == item.content.key.content IN
      IF key \in f.known
      THEN Running(Append(rest,
             UniqueFrame(f.combined, RemoveAt(f.content, f.i + 1), f.i, f.known)))
      ELSE Running(Append(rest,
             UniqueFrame(f.combined, f.content, f.i - 1, f.known \cup {key})))
    ELSE Running(Append(rest, UniqueFrame(f.combined, f.content, f.i - 1, f.known)))

\* One turn of the while loop over properties (part_000 61-111, example.js
\* 47-61), i being 1-based here.
membersStep(rest, f, ds, renderer) ==
  IF f.i > Len(f.properties) THEN Returned(rest)
  ELSE LET member == f.properties[f.i]
           after == Append(rest, MembersFrame(f.properties, f.i + 1))
       IN
    IF IsUndefined(member) THEN Raised
    ELSE IF ElementOf(member) = "ref"
    THEN IF member.content.href \in DOMAIN ds
         THEN Running(Append(rest,
                MembersFrame(spliceRef(f.properties, f.i, ds[member.content.href]), f.i)))
         ELSE Raised
    ELSE IF ElementOf(member) = "select" /\ renderer = "schema"
    THEN IF IsUndefined(Field(member, "content")) THEN Raised
         ELSE Running(Append(after, ItemsFrame(ArrayFrom(member.content), 1)))
    ELSE LET m == IF ElementOf(member) = "select" THEN firstChoice(member) ELSE Ok(member)
         IN IF ~m.ok THEN Raised
            ELSE IF ~(IsElement(m.v) /\ "content" \in DOMAIN m.v /\ IsPair(m.v.content))
            THEN Raised
            ELSE Running(Append(after, RenderFrame(m.v.content.value)))

\* One turn of the loop over the children of an array (part_000 41-43,
\* example.js 40-42) or over the options of a select (part_000 73-79).
itemsStep(rest, f) ==
  IF f.j > Len(f.content) THEN Returned(rest)
  ELSE Running(Append(Append(rest, ItemsFrame(f.content, f.j + 1)),
                      RenderFrame(f.content[f.j])))

StepIdle ==
  /\ stepStack = <<>>
  /\ stepStatus = "idle"
  /\ stepRenderer = "schema"

Take(r) ==
  /\ stepStack' = r.stack
  /\ stepStatus' = r.status
  /\ UNCHANGED <<stepRenderer, renderVars, slugVars, decorateVars>>

StepRender ==
  /\ stepStatus = "running"
  /\ Top(stepStack).op = "render"
  /\ Take(renderStep(Pop(stepStack), Top(stepStack).el, dataStructures, stepRenderer))
StepUnique ==
  /\ stepStatus = "running"
  /\ Top(stepStack).op = "unique"
  /\ Take(uniqueStep(Pop(stepStack), Top(stepStack)))
StepMembers ==
  /\ stepStatus = "running"
  /\ Top(stepStack).op = "members"
  /\ Take(membersStep(Pop(stepStack), Top(stepStack), dataStructures, stepRenderer))
StepItems ==
  /\ stepStatus = "running"
  /\ Top(stepStack).op = "items"
  /\ Take(itemsStep(Pop(stepStack), Top(stepStack)))

(***************************************************************************)
(* decorate (part_000 596-850): the loop over the requests and responses   *)
(* of an example, lines 730-841.                                           *)
(***************************************************************************)
\* JSON.stringify(v, null, 2): the text of v; undefined for undefined.
Stringify(v) == IF IsUndefined(v) THEN Undefined ELSE [t |-> "json", of |-> v]

\* A try without a catch: the error leaves decorate.
tryOnly(r, before, after) ==
  IF r.ok THEN [value |-> after, raised |-> FALSE] ELSE [value |-> before, raised |-> TRUE]
\* Lines 746-770 and 785-806: try { property = ... } catch (error) { log }.
tryCatch(r, before, after) ==
  IF r.ok THEN [value |-> after, raised |-> FALSE] ELSE [value |-> before, raised |-> FALSE]

\* Lines 740-772: the schema of every dataStructure among item.content, the
\* last one that renders being kept.
RECURSIVE schemaOfItem(_, _, _, _)
schemaOfItem(content, j, st, ds) ==
  IF j > Len(content) \/ st.raised THEN st
  ELSE IF ElementOf(content[j]) = "dataStructure"
  THEN LET r == renderSchema(ArrayFrom(content[j].content)[1], ds)
       IN schemaOfItem(content, j + 1,
            tryCatch(r, st.value,
              IF r.ok
              THEN Stringify(ObjSet(r.v, "$schema",
                                    Str("http://json-schema.org/draft-04/schema#")))
              ELSE Undefined), ds)
  ELSE schemaOfItem(content, j + 1, st, ds)

\* Lines 779-808: the same for the body.
RECURSIVE bodyOfItem(_, _, _, _)
bodyOfItem(content, j, st, ds) ==
  IF j > Len(content) \/ st.raised THEN st
  ELSE IF ElementOf(content[j]) = "dataStructure"
  THEN LET r == renderExample(ArrayFrom(content[j].content)[1], ds)
       IN bodyOfItem(content, j + 1,
            tryCatch(r, st.value, IF r.ok THEN Stringify(r.v) ELSE Undefined), ds)
  ELSE bodyOfItem(content, j + 1, st, ds)

\* Lines 818-840: JSON.stringify(JSON.parse(text), null, 2) gives back a
\* text that JSON.stringify(v, null, 2) wrote, and the text {}; a text that
\* is no JSON makes JSON.parse throw, which the catch at line 837 takes.
prettyPrint(text) ==
  IF text.t = "json" \/ text = Str("{}") THEN Ok(text) ELSE Throw("SyntaxError")

\* The payloads.
DataStructure(el) == [element |-> "dataStructure", content |-> Arr(<<el>>)]
Asset == [element |-> "asset", content |-> Str("x")]
Payload(content, schema, body) ==
  [content |-> content, schema |-> schema, body |-> body, hasContent |-> Undefined]
RendersWell == Object(<<Member("a", Prim("string"), <<>>)>>)
\* renderSchema renders every option and throws at the one without content;
\* renderExample takes the first.
SchemaThrows ==
  Object(<<Select(<<Option(<<Member("a", Prim("string"), <<>>)>>), Prim("option")>>)>>)
\* renderExample reads content[0] of an enum without content.
ExampleThrows == Prim("enum")
\* Both renderers meet the duplicate key id in inherit.
BothThrow == Named("Base", <<Member("id", Prim("string"), <<>>)>>)
PayloadSet ==
  { Payload(Arr(<<DataStructure(el)>>), Undefined, Str("")) :
      el \in {RendersWell, SchemaThrows, ExampleThrows, BothThrow, Prim("Missing")} }
  \cup { Payload(Arr(<<Asset, DataStructure(RendersWell)>>), Undefined, Str("")),
         Payload(Undefined, Undefined, Str("hello")),
         Payload(Arr(<<DataStructure(RendersWell)>>), Str("{}"), Str("")),
         Payload(Arr(<<DataStructure(BothThrow)>>), Undefined, Str("hello")) }

DecorateIdle ==
  /\ payloads = <<>>
  /\ decorated = <<>>
  /\ itemAt = 1
  /\ decoratePc = "done"
  /\ drafterExamples = FALSE

\* Lines 739-773: if (!item.schema && item.content) ...
DecorateSchema ==
  /\ decoratePc = "schema"
  /\ LET item == decorated[itemAt]
         st == IF ~Truthy(item.schema) /\ Truthy(item.content)
               THEN schemaOfItem(ArrayFrom(item.content), 1,
                                 [value |-> item.schema, raised |-> FALSE], dataStructures)
               ELSE [value |-> item.schema, raised |-> FALSE]
     IN /\ decorated' = [decorated EXCEPT ![itemAt].schema = st.value]
        /\ decoratePc' = IF st.raised THEN "aborted" ELSE "example"
  /\ UNCHANGED <<payloads, itemAt, drafterExamples, renderVars, slugVars, stepVars>>

\* Lines 775-809: if (item.content && !process.env.DRAFTER_EXAMPLES) ...
DecorateExample ==
  /\ decoratePc = "example"
  /\ LET item == decorated[itemAt]
         st == IF Truthy(item.content) /\ ~drafterExamples
               THEN bodyOfItem(ArrayFrom(item.content), 1,
                               [value |-> item.body, raised |-> FALSE], dataStructures)
               ELSE [value |-> item.body, raised |-> FALSE]
     IN /\ decorated' = [decorated EXCEPT ![itemAt].body = st.value]
        /\ decoratePc' = IF st.raised THEN "aborted" ELSE "finish"
  /\ UNCHANGED <<payloads, itemAt, drafterExamples, renderVars, slugVars, stepVars>>

\* Lines 811-841: hasContent (no description, no headers), the pretty
\* print, and on to the next item.
DecorateFinish ==
  /\ decoratePc = "finish"
  /\ LET item == decorated[itemAt]
         body == IF Truthy(item.body) THEN prettyPrint(item.body) ELSE Ok(item.body)
         schema == IF body.ok /\ Truthy(item.schema) THEN prettyPrint(item.schema)
                   ELSE Ok(item.schema)
     IN decorated' = [decorated EXCEPT
          ![itemAt].hasContent = IF Truthy(item.body) THEN item.body ELSE item.schema,
          ![itemAt].body = IF body.ok THEN body.v ELSE item.body,
          ![itemAt].schema = IF schema.ok THEN schema.v ELSE item.schema]
  /\ itemAt' = itemAt + 1
  /\ decoratePc' = IF itemAt + 1 > Len(decorated) THEN "done" ELSE "schema"
  /\ UNCHANGED <<payloads, drafterExamples, renderVars, slugVars, stepVars>>

(***************************************************************************)
(* slug (part_000 184-214).  A string is the sequence of its characters.   *)
(***************************************************************************)
Digits == <<"0", "1", "2", "3", "4", "5", "6", "7", "8", "9">>
IsDigit(c) == \E n \in 1..10 : Digits[n] = c
DigitValue(c) == (CHOOSE n \in 1..10 : Digits[n] = c) - 1

\* toLowerCase, on the letters the values are written with.
ToLowerCase(str) ==
  [n \in 1..Len(str) |-> CASE str[n] = "A" -> "a" [] str[n] = "B" -> "b" [] OTHER -> str[n]]
\* replace(/[ \t\n\\<>"'=:/]/g, "-")
Unsafe == {" ", "\t", "\n", "\\", "<", ">", "\"", "'", "=", ":", "/"}
ReplaceUnsafe(str) == [n \in 1..Len(str) |-> IF str[n] \in Unsafe THEN "-" ELSE str[n]]
\* replace(/-+/g, "-")
CollapseDashes(str) ==
  LET keep == {n \in 1..Len(str) : ~(str[n] = "-" /\ n > 1 /\ str[n - 1] = "-")}
  IN [n \in 1..Cardinality(keep) |->
        str[CHOOSE k \in keep : Cardinality({j \in keep : j <= k}) = n]]
\* replace(/^-/, "")
StripDash(str) == IF str # <<>> /\ str[1] = "-" THEN Tail(str) ELSE str
\* Lines 194-198.
sluggify(value) == StripDash(CollapseDashes(ReplaceUnsafe(ToLowerCase(value))))

\* The length of the match of /\d+$/, 0 when there is none.
TrailingDigits(str) ==
  LET others == {n \in 1..Len(str) : ~IsDigit(str[n])}
  IN IF others = {} THEN Len(str)
     ELSE Len(str) - (CHOOSE n \in others : \A j \in others : j <= n)

\* 2^53: up to it every whole number is a double, and 2^53 + 1 is rounded
\* back to 2^53 (ties go to the even mantissa).
TwoTo53 == <<"9", "0", "0", "7", "1", "9", "9", "2", "5", "4", "7", "4", "0", "9", "9", "2">>
\* A numeral without its leading zeros, as parseInt reads it.
StripZeros(d) ==
  LET others == {n \in 1..Len(d) : d[n] # "0"}
  IN IF others = {} THEN <<"0">>
     ELSE SubSeq(d, CHOOSE n \in others : \A j \in others : n <= j, Len(d))
\* n < m for decimal numerals without leading zeros.
NumeralLess(n, m) ==
  \/ Len(n) < Len(m)
  \/ /\ Len(n) = Len(m)
     /\ \E k \in 1..Len(n) :
          /\ \A j \in 1..(k - 1) : n[j] = m[j]
          /\ DigitValue(n[k]) < DigitValue(m[k])
\* The numeral of n + 1: the nines at the end turn to zeros and the digit
\* before them goes up by one.
Successor(n) ==
  LET others == {k \in 1..Len(n) : n[k] # "9"}
      zeros(c) == [k \in 1..c |-> "0"]
  IN IF others = {} THEN <<"1">> \o zeros(Len(n))
     ELSE LET at == CHOOSE k \in others : \A j \in others : j <= k
          IN SubSeq(n, 1, at - 1) \o <<Digits[DigitValue(n[at]) + 2]>> \o zeros(Len(n) - at)
\* String(parseInt(d) + 1) for a numeral d of at most 2^53 (no value of
\* the model holds a larger one).
parseIntPlusOne(d) ==
  CHOOSE out \in { IF NumeralLess(n, TwoTo53) THEN Successor(n) ELSE n :
                     n \in {StripZeros(d)} } : TRUE

\* Lines 203-207: the body of the while loop; k is the length of the match
\* of /\d+$/.
nextCandidate(str) ==
  CHOOSE out \in { IF k > 0
                   THEN SubSeq(str, 1, Len(str) - k)
                          \o parseIntPlusOne(SubSeq(str, Len(str) - k + 1, Len(str)))
                   ELSE str \o <<"-", "1">> :
                     k \in {TrailingDigits(str)} } : TRUE

\* The values slug is called with.
SlugValues ==
  { <<"A", " ", "b">>,
    <<"/", "a", ":", "-", "b", "-", "1">>,
    <<"a", "9">>,
    <<"x", "0", "9">>,
    SubSeq(TwoTo53, 1, 15) \o <<"1">> }

SlugIdle ==
  /\ slugCache = {}
  /\ slugPc = "idle"
  /\ sluggified = <<>>
  /\ slugUnique = FALSE
  /\ slugReturned = <<>>
  /\ slugTurns = 0

\* Lines 184-198: slug(cache, value, unique) up to the test of the loop.
SlugCall ==
  /\ slugPc = "idle"
  /\ Len(slugReturned) < MaxCalls
  /\ \E value \in SlugValues, unique \in BOOLEAN :
       /\ sluggified' = sluggify(value)
       /\ slugUnique' = unique
  /\ slugPc' = "test"
  /\ UNCHANGED <<slugCache, slugReturned, slugTurns, renderVars, decorateVars, stepVars>>

\* Lines 200-208: one turn of while (cache[sluggified]).
SlugLoop ==
  /\ slugPc = "test"
  /\ slugUnique
  /\ sluggified \in slugCache
  /\ sluggified' = nextCandidate(sluggified)
  /\ slugTurns' = 1 - slugTurns
  /\ UNCHANGED <<slugCache, slugPc, slugUnique, slugReturned, renderVars, decorateVars, stepVars>>

\* Lines 211-213: cache[sluggified] = true; return sluggified.
SlugReturn ==
  /\ slugPc = "test"
  /\ ~(slugUnique /\ sluggified \in slugCache)
  /\ slugCache' = slugCache \cup {sluggified}
  /\ slugReturned' = Append(slugReturned, [slug |-> sluggified, unique |-> slugUnique])
  /\ slugPc' = "idle"
  /\ slugTurns' = 0
  /\ UNCHANGED <<sluggified, slugUnique, renderVars, decorateVars, stepVars>>

\* No renderer is at work while slug is.
RenderIdle ==
  /\ root = [element |-> "string"]
  /\ dataStructures = <<>>
  /\ baseName = "none"
  /\ inheritOut = NotCalled
  /\ schemaOut = NotCalled
  /\ exampleOut = NotCalled
  /\ schemaAgain = NotCalled
  /\ exampleAgain = NotCalled

SlugInit == RenderIdle /\ SlugIdle /\ DecorateIdle /\ StepIdle
SlugNext == SlugCall \/ SlugLoop \/ SlugReturn
\* A call that has begun runs on: slug is synchronous code.
SlugSpec == SlugInit /\ [][SlugNext]_vars /\ WF_vars(SlugLoop \/ SlugReturn)

\* Derived inherits from Base and adds a member; no type reaches itself.
ChainTable ==
  ("Derived" :> Named("Base", <<Member("a", Prim("string"), <<>>)>>)) @@ NestedTable
ChainInputs ==
  { Input(r, ChainTable) :
      r \in {Prim("Derived"), Object(<<Ref("Derived")>>),
              Object(<<Member("a", Prim("Derived"), <<>>)>>)}
            \cup {Named("Derived", l) : l \in ShortLists} }
\* The elements and tables the renderers are stepped through.
StepInputs ==
  { Input(Named("Base", d), Table(Object(b))) : d \in MemberLists, b \in ShortLists }
  \cup ScalarInputs \cup ObjectInputs \cup ArrayInputs \cup NamedInputs
  \cup MixinInputs \cup EnumInputs \cup ChainInputs

StepInit ==
  /\ \E in \in StepInputs : root = in.root /\ dataStructures = in.dataStructures
  /\ baseName = "none"
  /\ inheritOut = NotCalled
  /\ schemaOut = NotCalled
  /\ exampleOut = NotCalled
  /\ schemaAgain = NotCalled
  /\ exampleAgain = NotCalled
  /\ SlugIdle
  /\ DecorateIdle
  /\ stepStack = <<RenderFrame(root)>>
  /\ stepStatus = "running"
  /\ stepRenderer \in {"schema", "example"}
StepNext == StepRender \/ StepUnique \/ StepMembers \/ StepItems
\* A renderer that has begun runs on: the code is synchronous.
StepSpec == StepInit /\ [][StepNext]_vars /\ WF_vars(StepNext)

\* decorate at work on the payloads of one example.
DecorateInit ==
  /\ root = [element |-> "string"]
  /\ dataStructures = Table(FixedBase)
  /\ baseName = "none"
  /\ inheritOut = NotCalled
  /\ schemaOut = NotCalled
  /\ exampleOut = NotCalled
  /\ schemaAgain = NotCalled
  /\ exampleAgain = NotCalled
  /\ SlugIdle
  /\ StepIdle
  /\ payloads \in SeqsUpTo(PayloadSet, MaxPayloads)
  /\ decorated = payloads
  /\ itemAt = 1
  /\ decoratePc = IF payloads = <<>> THEN "done" ELSE "schema"
  /\ drafterExamples \in BOOLEAN
DecorateNext == DecorateSchema \/ DecorateExample \/ DecorateFinish
DecorateSpec == DecorateInit /\ [][DecorateNext]_vars

(***************************************************************************)
(* The state machine: an input, and the outcome of each call made on it.   *)
(***************************************************************************)
Init ==
  /\ \E in \in Inputs : root = in.root /\ dataStructures = in.dataStructures
  /\ baseName = "none"
  /\ inheritOut = NotCalled
  /\ schemaOut = NotCalled
  /\ exampleOut = NotCalled
  /\ schemaAgain = NotCalled
  /\ exampleAgain = NotCalled
  /\ SlugIdle
  /\ DecorateIdle
  /\ StepIdle

\* renderSchema(root, dataStructures)
RenderSchema ==
  /\ schemaOut = NotCalled
  /\ schemaOut' = renderSchema(root, dataStructures)
  /\ root' = rootAfter(root, dataStructures, "schema")
  /\ dataStructures' = tableAfter(root, dataStructures)
  /\ UNCHANGED <<baseName, inheritOut, exampleOut, schemaAgain, exampleAgain,
               slugVars, decorateVars, stepVars>>

\* renderExample(root, dataStructures)
RenderExample ==
  /\ exampleOut = NotCalled
  /\ exampleOut' = renderExample(root, dataStructures)
  /\ root' = rootAfter(root, dataStructures, "example")
  /\ dataStructures' = tableAfter(root, dataStructures)
  /\ UNCHANGED <<baseName, inheritOut, schemaOut, schemaAgain, exampleAgain,
               slugVars, decorateVars, stepVars>>

\* inherit(dataStructures[name], root), as both renderers call it for a root
\* whose kind is the name of a type.
Inherit ==
  /\ inheritOut = NotCalled
  /\ root.element \in DOMAIN dataStructures
  /\ baseName' = root.element
  /\ inheritOut' = inherit(dataStructures[root.element], root)
  /\ LET h == inheritCells(("root" :> root) @@ dataStructures, root.element, root)
     IN /\ root' = h["root"]
        /\ dataStructures' = [n \in DOMAIN dataStructures |-> h[n]]
  /\ UNCHANGED <<schemaOut, exampleOut, schemaAgain, exampleAgain,
               slugVars, decorateVars, stepVars>>

\* renderSchema(root, dataStructures) a second time.
RenderSchemaAgain ==
  /\ Called(schemaOut)
  /\ schemaAgain = NotCalled
  /\ schemaAgain' = renderSchema(root, dataStructures)
  /\ root' = rootAfter(root, dataStructures, "schema")
  /\ dataStructures' = tableAfter(root, dataStructures)
  /\ UNCHANGED <<baseName, inheritOut, schemaOut, exampleOut, exampleAgain,
               slugVars, decorateVars, stepVars>>

\* renderExample(root, dataStructures) a second time.
RenderExampleAgain ==
  /\ Called(exampleOut)
  /\ exampleAgain = NotCalled
  /\ exampleAgain' = renderExample(root, dataStructures)
  /\ root' = rootAfter(root, dataStructures, "example")
  /\ dataStructures' = tableAfter(root, dataStructures)
  /\ UNCHANGED <<baseName, inheritOut, schemaOut, exampleOut, schemaAgain,
               slugVars, decorateVars, stepVars>>

Next ==
  \/ RenderSchema \/ RenderExample \/ Inherit
  \/ RenderSchemaAgain \/ RenderExampleAgain

Spec == Init /\ [][Next]_vars

(***************************************************************************)
(* Vocabulary of the properties.                                           *)
(***************************************************************************)
BuiltInKinds == {"boolean", "string", "number", "enum", "array", "object", "option"}
IsScalar(c) == Tagged(c) /\ c.t \in {"string", "number", "boolean"}
IsMemberList(c) ==
  IsArray(c) /\ \A i \in 1..Len(c.items) : ElementOf(c.items[i]) = "member"
KeyAt(items, i) == items[i].content.key.content.s
KeysOf(items) == {KeyAt(items, i) : i \in 1..Len(items)}
NoRepeat(items) ==
  \A i, j \in 1..Len(items) : KeyAt(items, i) = KeyAt(items, j) => i = j
Positions(items, k) == {i \in 1..Len(items) : KeyAt(items, i) = k}
Min(S) == CHOOSE x \in S : \A y \in S : x <= y
Max(S) == CHOOSE x \in S : \A y \in S : x >= y

\* The base and the derived element of the Inherit action.
TheBase == dataStructures[baseName]
BaseContent == Field(TheBase, "content")
DerivedContent == Field(root, "content")
InheritsMembers ==
  /\ Called(inheritOut)
  /\ IsMemberList(BaseContent)
  /\ IsMemberList(DerivedContent)
SharedKeys == KeysOf(BaseContent.items) \cap KeysOf(DerivedContent.items)
Concatenated == BaseContent.items \o DerivedContent.items

\* schema.properties[key] of a returned schema.
PropertyOf(schema, key) == ObjGet(ObjGet(schema, "properties"), key)
Schema(entries) == Obj(entries)
TypeOnly(kind) == Obj(<<[key |-> "type", value |-> Str(kind)]>>)

(***************************************************************************)
(* C1.  End-to-end override.  With Base an object whose only member is id  *)
(* of type number, renderSchema of a root of kind Base whose content is    *)
(* one required member id of type string returns {type: "object",          *)
(* properties: {id: {type: "string"}}, required: ["id"]}; and whenever     *)
(* base and root declare a common key, renderSchema returns normally and   *)
(* properties[key] is the schema of root's own member, that is the         *)
(* property that root's members rendered as an object on their own give.   *)
(***************************************************************************)
C1_SpecExample ==
  (/\ Called(schemaOut)
   /\ dataStructures["Base"] = FixedBase
   /\ root = Named("Base", <<Member("id", Prim("string"), <<"required">>)>>))
  => schemaOut = Ok(Schema(<<
        [key |-> "type", value |-> Str("object")],
        [key |-> "properties", value |->
           Obj(<<[key |-> "id", value |-> TypeOnly("string")]>>)],
        [key |-> "required", value |-> Arr(<<Str("id")>>)]>>))
C1_SharedKey ==
  (/\ Called(schemaOut)
   /\ root.element = "Base"
   /\ IsMemberList(Field(dataStructures["Base"], "content"))
   /\ IsMemberList(DerivedContent))
  => \A k \in KeysOf(dataStructures["Base"].content.items) \cap KeysOf(DerivedContent.items) :
       /\ schemaOut.ok
       /\ PropertyOf(schemaOut.v, k)
            = PropertyOf(renderSchema(Object(DerivedContent.items), dataStructures).v, k)
\* C1: the example of the specification and the general statement together.
C1_Override == C1_SpecExample /\ C1_SharedKey

(***************************************************************************)
(* C2.  Inheritance override position.  When base and derived member       *)
(* lists declare a common key, inherit returns a content with exactly one  *)
(* member of that key, equal to derived's member, at the index of the      *)
(* first occurrence of the key in the base-then-derived concatenation.     *)
(***************************************************************************)
C2_OverridePosition ==
  InheritsMembers =>
    \A k \in SharedKeys :
      /\ inheritOut.ok
      /\ IsArray(Field(inheritOut.v, "content"))
      /\ LET out == inheritOut.v.content.items
             at == {i \in 1..Len(out) : ElementOf(out[i]) = "member" /\ KeyAt(out, i) = k}
         IN /\ Cardinality(at) = 1
            /\ \A i \in at :
                 /\ out[i] = DerivedContent.items[Max(Positions(DerivedContent.items, k))]
                 /\ i = Min(Positions(Concatenated, k))

(***************************************************************************)
(* C3.  Inheritance on disjoint keys.  When base and derived member lists  *)
(* have no key in common and none repeats a key, the content inherit       *)
(* returns is base's members followed by derived's, nothing removed.       *)
(***************************************************************************)
DisjointCase ==
  /\ InheritsMembers
  /\ SharedKeys = {}
  /\ NoRepeat(BaseContent.items)
  /\ NoRepeat(DerivedContent.items)
\* C3: on disjoint keys inherit returns base's members followed by derived's.
C3_DisjointKeys ==
  DisjointCase => /\ inheritOut.ok
                  /\ Field(inheritOut.v, "content") = Arr(Concatenated)
C3_Witness ==
  /\ DisjointCase
  /\ Len(BaseContent.items) >= 1
  /\ Len(DerivedContent.items) >= 1
  /\ inheritOut.ok
  /\ Len(inheritOut.v.content.items) = Len(BaseContent.items) + Len(DerivedContent.items)

(***************************************************************************)
(* C4.  Unresolved mixin reference.  When the member list of an object     *)
(* holds a ref whose href is no type of the symbol table, renderSchema and *)
(* renderExample raise no error and render the object as if the ref were   *)
(* not there.                                                              *)
(***************************************************************************)
IsUnresolvedRef(m) ==
  ElementOf(m) = "ref" /\ m.content.href \notin DOMAIN dataStructures
HasUnresolvedRef ==
  /\ root.element = "object"
  /\ IsArray(DerivedContent)
  /\ \E i \in 1..Len(DerivedContent.items) : IsUnresolvedRef(DerivedContent.items[i])
WithoutUnresolvedRefs == Object(SelectSeq(DerivedContent.items, LAMBDA m : ~IsUnresolvedRef(m)))
\* C4: an unresolved ref raises no error and contributes nothing.
C4_UnresolvedRef ==
  HasUnresolvedRef =>
    /\ Called(schemaOut) =>
         schemaOut.ok /\ schemaOut = renderSchema(WithoutUnresolvedRefs, dataStructures)
    /\ Called(exampleOut) =>
         exampleOut.ok /\ exampleOut = renderExample(WithoutUnresolvedRefs, dataStructures)

(***************************************************************************)
(* C5.  Unresolved named type.  For a root whose kind is no built-in kind  *)
(* and no type of the symbol table, renderSchema returns a schema without  *)
(* properties, items or enum, whose type is absent unless root's own       *)
(* nullable flag put one there, and which is {} when root has neither a    *)
(* description nor the nullable flag; renderExample returns no value.      *)
(***************************************************************************)
UnresolvedNamed ==
  /\ root.element \notin BuiltInKinds
  /\ root.element \notin DOMAIN dataStructures
\* C5: an unresolved named type renders as an empty schema and no example.
C5_UnresolvedNamed ==
  UnresolvedNamed =>
    /\ Called(schemaOut) =>
         /\ schemaOut.ok
         /\ \A f \in {"properties", "items", "enum", "default"} : ~ObjHas(schemaOut.v, f)
         /\ ObjHas(schemaOut.v, "type") =>
              /\ SeqHas(TypeAttributes(root), "nullable")
              /\ ObjGet(schemaOut.v, "type") = Arr(<<Undefined, Str("null")>>)
         /\ (IsUndefined(Description(root)) /\ ~SeqHas(TypeAttributes(root), "nullable"))
              => schemaOut.v = EmptyObj
    /\ Called(exampleOut) => exampleOut = Ok(Undefined)
C5_Witness ==
  /\ UnresolvedNamed
  /\ schemaOut = Ok(EmptyObj)
  /\ exampleOut = Ok(Undefined)

(***************************************************************************)
(* C6.  Scalar content override.  When base content and derived content    *)
(* are both scalars, inherit returns an element whose content is           *)
(* derived's, so that a named primitive referenced with a literal renders  *)
(* its example as that literal.                                            *)
(***************************************************************************)
ScalarCase == IsScalar(BaseContent) /\ IsScalar(DerivedContent)
\* C6: scalar derived content overwrites scalar base content.
C6_ScalarOverride ==
  /\ (Called(inheritOut) /\ ScalarCase) =>
       inheritOut.ok /\ Field(inheritOut.v, "content") = DerivedContent
  /\ (/\ Called(exampleOut)
      /\ root.element \in DOMAIN dataStructures
      /\ dataStructures[root.element].element \in {"boolean", "string", "number"}
      /\ IsScalar(Field(dataStructures[root.element], "content"))
      /\ IsScalar(DerivedContent)) => exampleOut = Ok(DerivedContent)

(***************************************************************************)
(* C7.  Structural mismatch.  When exactly one of base content and derived *)
(* content is a list of elements and the other a scalar, inherit does not  *)
(* fail and the content of its result is derived's content.                *)
(***************************************************************************)
MismatchCase ==
  \/ IsArray(BaseContent) /\ IsScalar(DerivedContent)
  \/ IsScalar(BaseContent) /\ IsArray(DerivedContent)
\* C7: a list on one side and a scalar on the other falls back to overwriting.
C7_StructuralMismatch ==
  (Called(inheritOut) /\ MismatchCase) =>
    inheritOut.ok /\ Field(inheritOut.v, "content") = DerivedContent

(***************************************************************************)
(* C8.  Array items in the schema.  For an array with N >= 1 children      *)
(* whose schemas are all identical, items is that schema; for N >= 2       *)
(* children of which two have different schemas, items is {anyOf: [...]}   *)
(* with the N schemas in child order.                                      *)
(***************************************************************************)
Children == DerivedContent.items
ChildSchemas == [i \in 1..Len(Children) |-> renderSchema(Children[i], dataStructures).v]
ArrayCase ==
  /\ Called(schemaOut)
  /\ root.element = "array"
  /\ IsArray(DerivedContent)
  /\ Len(Children) >= 1
AllIdentical == \A i, j \in 1..Len(Children) : ChildSchemas[i] = ChildSchemas[j]
\* C8: identical child schemas collapse, differing ones are wrapped in anyOf.
C8_ArrayItems ==
  ArrayCase =>
    /\ schemaOut.ok
    /\ AllIdentical => ObjGet(schemaOut.v, "items") = ChildSchemas[1]
    /\ ~AllIdentical =>
         ObjGet(schemaOut.v, "items") = Obj(<<[key |-> "anyOf", value |-> Arr(ChildSchemas)]>>)

(***************************************************************************)
(* C9.  Option-set in the schema.  For an object with k option-set         *)
(* members, allOf has exactly k clauses in member order; the clause of an  *)
(* option-set is {not: {required: U}} with U the names of the properties   *)
(* its options contribute, each name once, in option order; every name of  *)
(* U is a key of properties.                                               *)
(***************************************************************************)
RECURSIVE Dedup(_)
Dedup(q) ==
  IF q = <<>> THEN <<>>
  ELSE LET front == Dedup(SubSeq(q, 1, Len(q) - 1)) IN
       IF SeqHas(front, q[Len(q)]) THEN front ELSE Append(front, q[Len(q)])
RECURSIVE Flatten(_)
Flatten(qq) == IF qq = <<>> THEN <<>> ELSE Head(qq) \o Flatten(Tail(qq))
\* The property names that each option of a select contributes, in order.
OptionNames(select) ==
  Flatten([j \in 1..Len(select.content.items) |->
             LET p == ObjGet(renderSchema(select.content.items[j], dataStructures).v,
                             "properties")
             IN IF IsUndefined(p) THEN <<>> ELSE ObjKeys(p)])
SelectsOf(items) == SelectSeq(items, LAMBDA m : ElementOf(m) = "select")
ExclusiveClause(names) ==
  Obj(<<[key |-> "not", value |->
           Obj(<<[key |-> "required", value |->
                    Arr([i \in 1..Len(names) |-> Str(names[i])])]>>)]>>)
SelectCase ==
  /\ Called(schemaOut)
  /\ schemaOut.ok
  /\ root.element = "object"
  /\ Len(SelectsOf(DerivedContent.items)) >= 1
\* C9: one {not: {required: U}} clause per option-set, U without repetition.
C9_OptionSetSchema ==
  SelectCase =>
    LET sel == SelectsOf(DerivedContent.items)
        allOf == ObjGet(schemaOut.v, "allOf")
    IN /\ IsArray(allOf)
       /\ Len(allOf.items) = Len(sel)
       /\ \A j \in 1..Len(sel) :
            /\ allOf.items[j] = ExclusiveClause(Dedup(OptionNames(sel[j])))
            /\ \A n \in 1..Len(OptionNames(sel[j])) :
                 ObjHas(ObjGet(schemaOut.v, "properties"), OptionNames(sel[j])[n])

(***************************************************************************)
(* C10.  Option-set in the example.  The keys of the object renderExample  *)
(* returns are keys of plain members, of inlined mixins and of the first   *)
(* option of each option-set; a key declared only in a second or later     *)
(* option is no key of the object.                                         *)
(***************************************************************************)
MemberKeys(items) ==
  {items[i].content.key.content.s : i \in {j \in 1..Len(items) : ElementOf(items[j]) = "member"}}
\* The keys an item of a member list may put into the example.
AllowedKeys(m) ==
  IF ElementOf(m) = "member" THEN {m.content.key.content.s}
  ELSE IF ElementOf(m) = "ref" THEN MemberKeys(dataStructures[m.content.href].content.items)
  ELSE IF ElementOf(m) = "select" THEN MemberKeys(m.content.items[1].content.items)
  ELSE {}
LaterOptionKeys(m) ==
  IF ElementOf(m) = "select"
  THEN UNION {MemberKeys(m.content.items[j].content.items) : j \in 2..Len(m.content.items)}
  ELSE {}
ExampleCase ==
  /\ Called(exampleOut)
  /\ exampleOut.ok
  /\ root.element = "object"
  /\ \E i \in 1..Len(DerivedContent.items) : ElementOf(DerivedContent.items[i]) = "select"
\* C10: every key of the example comes from a plain member, a mixin or a first option.
C10_OptionSetExample ==
  ExampleCase =>
    \A i \in 1..Len(exampleOut.v.entries) :
      exampleOut.v.entries[i].key
        \in UNION {AllowedKeys(DerivedContent.items[j]) : j \in 1..Len(DerivedContent.items)}
C10_Witness ==
  /\ ExampleCase
  /\ \E j \in 1..Len(DerivedContent.items) :
       /\ LaterOptionKeys(DerivedContent.items[j]) # {}
       /\ \A k \in LaterOptionKeys(DerivedContent.items[j]) : ~ObjHas(exampleOut.v, k)
       /\ \E k \in AllowedKeys(DerivedContent.items[j]) : ObjHas(exampleOut.v, k)

(***************************************************************************)
(* C11.  Nullable widening at the top level.  For a boolean, string,       *)
(* number, array or object element, or a named type resolving to one of    *)
(* these, that carries the nullable flag itself, the type of the schema    *)
(* renderSchema returns is the two-element list [t, "null"], t being the   *)
(* type returned for the same element without the flag: the widening is    *)
(* applied once and never nested.                                          *)
(***************************************************************************)
WidenedKinds == {"boolean", "string", "number", "array", "object"}
WithoutNullable(el) ==
  Put(el, "attributes",
      Put(el.attributes, "typeAttributes",
          SelectSeq(el.attributes.typeAttributes, LAMBDA x : x # "nullable")))
NullableCase ==
  /\ Called(schemaOut)
  /\ schemaOut.ok
  /\ SeqHas(TypeAttributes(root), "nullable")
  /\ \/ root.element \in WidenedKinds
     \/ /\ root.element \in DOMAIN dataStructures
        /\ dataStructures[root.element].element \in WidenedKinds
C11_NullableOnce ==
  NullableCase =>
    LET plain == renderSchema(WithoutNullable(root), dataStructures)
    IN /\ plain.ok
       /\ ObjGet(schemaOut.v, "type") = Arr(<<ObjGet(plain.v, "type"), Str("null")>>)

(***************************************************************************)
(* C17.  Last write wins and nothing else is lost.  For member lists on    *)
(* both sides, inherit returns, and the content it returns holds every key *)
(* of base.content followed by derived.content exactly once; the member    *)
(* kept for a key is its last occurrence in that concatenation; members    *)
(* whose key occurs once keep their relative order.                        *)
(***************************************************************************)
LastOf(items, k) == items[Max(Positions(items, k))]
OnceOnly(items) == {i \in 1..Len(items) : Cardinality(Positions(items, KeyAt(items, i))) = 1}
C17_LastWriteWins ==
  InheritsMembers =>
    /\ inheritOut.ok
    /\ IsMemberList(Field(inheritOut.v, "content"))
    /\ LET out == inheritOut.v.content.items IN
       /\ KeysOf(out) = KeysOf(Concatenated)
       /\ NoRepeat(out)
       /\ \A k \in KeysOf(Concatenated) : LastOf(out, k) = LastOf(Concatenated, k)
       /\ \A i, j \in OnceOnly(Concatenated) :
            i < j => Min(Positions(out, KeyAt(Concatenated, i)))
                       < Min(Positions(out, KeyAt(Concatenated, j)))

(***************************************************************************)
(* Mixins replaced by the member lists they name, recursively.             *)
(***************************************************************************)
RECURSIVE RefsResolve(_, _), Inlined(_, _)
RefsResolve(items, ds) ==
  \A i \in 1..Len(items) :
    ElementOf(items[i]) = "ref" =>
      /\ items[i].content.href \in DOMAIN ds
      /\ IsArray(Field(ds[items[i].content.href], "content"))
      /\ RefsResolve(ds[items[i].content.href].content.items, ds)
Inlined(items, ds) ==
  IF items = <<>> THEN <<>>
  ELSE (IF ElementOf(Head(items)) = "ref"
        THEN Inlined(ds[Head(items).content.href].content.items, ds)
        ELSE <<Head(items)>>) \o Inlined(Tail(items), ds)
HasRef(items) == \E i \in 1..Len(items) : ElementOf(items[i]) = "ref"

(***************************************************************************)
(* C18.  A key declared twice in one object.  When the member list of an   *)
(* object, after its mixins are inlined, names a key more than once, what  *)
(* the renderers return for the key is what the last occurrence alone      *)
(* gives: properties[key] with its description and nullable widening,      *)
(* whether the key is listed in required, and the value in the example.    *)
(***************************************************************************)
OwnMembers == Inlined(DerivedContent.items, dataStructures)
DuplicateCase ==
  /\ root.element = "object"
  /\ IsArray(DerivedContent)
  /\ RefsResolve(DerivedContent.items, dataStructures)
  /\ IsMemberList(Arr(OwnMembers))
  /\ ~NoRepeat(OwnMembers)
InRequired(schema, k) ==
  ObjHas(schema, "required") /\ SeqHas(ObjGet(schema, "required").items, Str(k))
SchemaAlone(m) == renderSchema(Object(<<m>>), dataStructures)
ExampleAlone(m) == renderExample(Object(<<m>>), dataStructures)
C18_LastOccurrence ==
  DuplicateCase =>
    /\ (Called(schemaOut) /\ schemaOut.ok) =>
         \A k \in KeysOf(OwnMembers) :
           LET alone == SchemaAlone(LastOf(OwnMembers, k)) IN
           /\ PropertyOf(schemaOut.v, k) = PropertyOf(alone.v, k)
           /\ InRequired(schemaOut.v, k) <=> InRequired(alone.v, k)
    /\ (Called(exampleOut) /\ exampleOut.ok) =>
         \A k \in KeysOf(OwnMembers) :
           ObjGet(exampleOut.v, k) = ObjGet(ExampleAlone(LastOf(OwnMembers, k)).v, k)

(***************************************************************************)
(* C19.  Mixins are inlined in place.  For an object whose ref members all *)
(* resolve to types with a member list, renderSchema and renderExample     *)
(* give what they give for the object in which every ref is replaced, at   *)
(* its position and recursively, by the member list of the type it names.  *)
(***************************************************************************)
MixinCase ==
  /\ root.element = "object"
  /\ IsArray(DerivedContent)
  /\ HasRef(DerivedContent.items)
  /\ RefsResolve(DerivedContent.items, dataStructures)
WithMixinsInlined == Put(root, "content", Arr(OwnMembers))
C19_PositionalInlining ==
  MixinCase =>
    /\ Called(schemaOut) => schemaOut = renderSchema(WithMixinsInlined, dataStructures)
    /\ Called(exampleOut) => exampleOut = renderExample(WithMixinsInlined, dataStructures)
C19_Witness ==
  /\ MixinCase
  /\ \E i \in 1..Len(DerivedContent.items) :
       /\ ElementOf(DerivedContent.items[i]) = "ref"
       /\ HasRef(dataStructures[DerivedContent.items[i].content.href].content.items)
  /\ Len(DerivedContent.items) > 1
  /\ Called(schemaOut) /\ schemaOut.ok
  /\ Called(exampleOut) /\ exampleOut.ok
  /\ Len(ObjKeys(ObjGet(schemaOut.v, "properties"))) >= 3

(***************************************************************************)
(* C20.  The example has no key the schema lacks.  When both renderers     *)
(* return normally and renderExample returns an object, the schema has a   *)
(* properties map and every key of the example is a key of that map.       *)
(***************************************************************************)
BothReturn ==
  /\ Called(schemaOut) /\ schemaOut.ok
  /\ Called(exampleOut) /\ exampleOut.ok
  /\ IsObj(exampleOut.v)
KeysAgree ==
  LET props == ObjGet(schemaOut.v, "properties") IN
  /\ IsObj(props)
  /\ \A i \in 1..Len(exampleOut.v.entries) : ObjHas(props, exampleOut.v.entries[i].key)
C20_KeysAgree == BothReturn => KeysAgree
\* The kind an element has once the named types it inherits from are followed.
RECURSIVE ResolvedKind(_, _)
ResolvedKind(el, ds) ==
  IF el.element \in DOMAIN ds THEN ResolvedKind(ds[el.element], ds) ELSE el.element
\* C20 as it holds: the same for every element that is no enumeration,
\* directly or through the named types it inherits from.
C20_KeysAgreeUnlessEnum ==
  (BothReturn /\ ResolvedKind(root, dataStructures) # "enum") => KeysAgree
C20_Witness ==
  /\ BothReturn
  /\ root.element = "object"
  /\ \E i \in 1..Len(DerivedContent.items) : ElementOf(DerivedContent.items[i]) = "select"
  /\ Len(exampleOut.v.entries) >= 2

(***************************************************************************)
(* C12.  No input is written.  Whatever calls of renderSchema,             *)
(* renderExample and inherit are made, the symbol table and the root, with *)
(* their content lists, meta and attributes, are after each call what they *)
(* were before it: mixins are inlined and duplicates removed in copies.    *)
(***************************************************************************)
C12_InputsUnchanged ==
  [][root' = root /\ dataStructures' = dataStructures]_vars
\* inherit has appended to its copy of base and a renderer has inlined a
\* mixin, or a renderer has resolved a named root with members of its own.
C12_Witness ==
  \/ /\ Called(inheritOut) /\ inheritOut.ok
     /\ IsArray(BaseContent) /\ IsArray(Field(inheritOut.v, "content"))
     /\ Len(inheritOut.v.content.items) > Len(BaseContent.items)
     /\ Called(schemaOut) /\ Called(exampleOut)
  \/ /\ MixinCase
     /\ Called(schemaOut) /\ schemaOut.ok
     /\ Called(exampleOut) /\ exampleOut.ok

(***************************************************************************)
(* C13.  Determinism.  A second renderSchema, or a second renderExample,   *)
(* of the same root against the same table returns what the first call     *)
(* returned, value or failure, whatever calls were made in between.        *)
(***************************************************************************)
C13_Deterministic ==
  /\ Called(schemaAgain) => schemaAgain = schemaOut
  /\ Called(exampleAgain) => exampleAgain = exampleOut
C13_Witness ==
  /\ Called(schemaAgain) /\ schemaAgain.ok
  /\ Called(exampleAgain) /\ exampleAgain.ok
  /\ Called(inheritOut) /\ inheritOut.ok
  /\ IsArray(DerivedContent) /\ Len(DerivedContent.items) > 0

(***************************************************************************)
(* C16.  Unique slugs.  On one cache, every call of slug with unique set   *)
(* returns a slug that no earlier call on that cache returned, also when   *)
(* the value is one passed before or ends in digits; and every call        *)
(* returns.                                                                *)
(***************************************************************************)
SlugsDiffer ==
  \A j \in 1..Len(slugReturned) :
    slugReturned[j].unique =>
      \A k \in 1..(j - 1) : slugReturned[k].slug # slugReturned[j].slug
SlugReturns == (slugPc = "test") ~> (slugPc = "idle")
C16_UniqueSlugs == []SlugsDiffer /\ SlugReturns

(***************************************************************************)
(* C15.  One payload's error stays with that payload.  While decorate      *)
(* walks the requests and responses, an error renderSchema or              *)
(* renderExample raises for a payload is caught: decorate goes on, the     *)
(* schema (the body) of that payload stays as it was given, unset when     *)
(* none was given; the body of the same payload and the schema and body of *)
(* every later payload are rendered as if no error had been raised.        *)
(***************************************************************************)
StructureOf(payload) ==
  LET c == ArrayFrom(payload.content)
      at == CHOOSE j \in 1..Len(c) : ElementOf(c[j]) = "dataStructure"
  IN c[at].content.items[1]
HasStructure(payload) ==
  \E j \in 1..Len(ArrayFrom(payload.content)) :
    ElementOf(ArrayFrom(payload.content)[j]) = "dataStructure"
SchemaTried(i) == i < itemAt \/ (i = itemAt /\ decoratePc \in {"example", "finish"})
BodyTried(i) == i < itemAt \/ (i = itemAt /\ decoratePc = "finish")
SchemaText(el) ==
  LET r == renderSchema(el, dataStructures) IN
  Stringify(ObjSet(r.v, "$schema", Str("http://json-schema.org/draft-04/schema#")))
C14_Terminates == <>(stepStatus \in {"returned", "raised"})
\* A renderer has returned from an object with a mixin that holds a mixin,
\* or from a type that inherits members and adds members of its own.
C14_Witness ==
  /\ stepStatus = "returned"
  /\ \/ /\ root.element = "object"
        /\ \E i \in 1..Len(root.content.items) :
             /\ ElementOf(root.content.items[i]) = "ref"
             /\ root.content.items[i].content.href = "Nested"
     \/ /\ root.element = "Derived"
        /\ IsArray(Field(root, "content"))
        /\ Len(root.content.items) > 0

====
